---- MODULE Spec2Model ----
(***************************************************************************)
(* svn2git (svn-all-fast-export), src/main.cpp: the resume-point           *)
(* resolution loop ("retry:"), the resume check, the revision range, the   *)
(* export loop and the finalization of main().                             *)
(*                                                                         *)
(* The collaborators main() calls (makeRepository, Repository::            *)
(* setupIncremental / restoreLog / finalizeTags, Svn::youngestRevision /   *)
(* exportRevision, the contents of the revisions file) are not part of     *)
(* main.cpp: each call is an input of the step that makes it, drawn from   *)
(* the outcomes its interface allows.                                      *)
(*                                                                         *)
(* loadIdentityMapFile and loadRevisionsFile are pure functions of the     *)
(* file they read: LoaderSpec runs them line by line on bounded files.     *)
(***************************************************************************)
EXTENDS Integers, Sequences, FiniteSets

\* ------------------------------------------------------------------ bounds
\* Revision numbers range over 1..MaxRev.
MaxRev == 3
\* The rule table configures at most MaxRepos repositories, named 1..MaxRepos.
MaxRepos == 2
\* A revisions file has at most MaxLines lines of at most MaxLineLen characters.
MaxLines == 2
MaxLineLen == 2
\* A line of an identity-map file has at most MaxIdLineLen characters.
MaxIdLineLen == 5

\* ------------------------------------------------------- program constants
\* INT_MAX of <limits.h>: the cutoff when no resume point is requested.
IntMax == 2147483647
EXIT_SUCCESS == 0
EXIT_FAILURE == 1

Revs == 1..MaxRev
Names == 1..MaxRepos

VARIABLES
    pc,               \* "scan" | "resolved" | "range" | "export" | "finalize" | "exit"
    resume_from,      \* --resume-from (0: not given)
    max_rev,          \* --max-rev (0: not given), then the resolved upper bound
    numRepos,         \* rulesList.allRepositories() is <<1, ..., numRepos>>
    repositories,     \* QHash name -> Repository*: the number of entries per name
    cutoff,
    min_rev,
    idx,              \* position of the foreach at line 160: the next rule to scan
    revisions,        \* QSet<int> loaded at line 214
    i,                \* the loop variable of line 216
    errors,
    pending,          \* entries the foreach at line 231 has still to visit
    exitStatus,       \* main's return value (-1 while running)
    exitLine,         \* the line of the return statement taken (0 while running)
    \* ---- history of the run (what was called, what was observed)
    passStart,        \* the cutoff with which the current pass started
    passNext,         \* nextRevision values merged in the current pass, in order
    overshoot,        \* some setupIncremental returned more than the cutoff it left
    restarted,        \* some pass was abandoned
    setupCalls,       \* names setupIncremental was called on
    restoreLogCalls,  \* names restoreLog was called on
    resolved_min_rev, \* min_rev when the resolution completed (0 before)
    revisionsFileGiven, \* --revisions-file was given
    youngestQueried,  \* svn.youngestRevision() was called
    skipped,          \* revisions the filter skipped
    calls,            \* exportRevision / finalizeTags calls, in order
    resumeErrorReported, \* the qCritical of lines 193-194 was emitted
    failedRev,        \* the revision whose exportRevision returned false (0: none)
    lastSetup,        \* the setupIncremental call of the loop iteration just run:
                      \* <<name, nextRevision, restoreLog called>> (<<>> outside the loop)
    \* ---- the loaders (lines 32-96)
    lpc,              \* "off" | "open" | "read" | "done" | "used"
    lwhich,           \* "identity-map" | "revisions-file"
    lopen,            \* "none" (empty file name) | "unreadable" | "readable"
    llines,           \* the lines of the file
    lfile,            \* the lines not yet read
    lmap,             \* result of loadIdentityMapFile
    lrevs,            \* result of loadRevisionsFile
    ldiag,            \* "Unable to convert" diagnostics printed
    lfilter           \* filerRevisions of line 215

vars == <<pc, resume_from, max_rev, numRepos, repositories, cutoff, min_rev, idx,
          revisions, i, errors, pending, exitStatus, exitLine,
          passStart, passNext, overshoot, restarted, setupCalls, restoreLogCalls,
          resolved_min_rev, revisionsFileGiven, youngestQueried, skipped, calls,
          resumeErrorReported, failedRev, lastSetup,
          lpc, lwhich, lopen, llines, lfile, lmap, lrevs, ldiag, lfilter>>

resolverVars == <<cutoff, min_rev, idx, passStart, passNext, overshoot, restarted,
                  setupCalls, restoreLogCalls, lastSetup>>
loaderVars == <<lpc, lwhich, lopen, llines, lfile, lmap, lrevs, ldiag, lfilter>>
exportVars == <<revisions, i, errors, revisionsFileGiven, youngestQueried, skipped,
                failedRev>>

\* ---------------------------------------------------------------- helpers
\* line 157: int cutoff = resume_from ? resume_from : INT_MAX;
InitialCutoffAlwaysMax(r) == IntMax
InitialCutoff(r) == IF r # 0 THEN r ELSE IntMax

\* QHash::insert replaces the value of an existing key: one entry per name.
InsertMulti(h, k) == [h EXCEPT ![k] = @ + 1]
Insert(h, k) == [h EXCEPT ![k] = 1]

\* Repository::setupIncremental(int &cutoff): the pairs <<nextRevision, cutoff
\* left behind>> its interface allows: a next revision >= 1, and a cutoff that
\* is kept or lowered, never below 1.
SetupIncrementalOutcomes(c) ==
    { <<n, c2>> \in Revs \X (Revs \cup {IntMax}) : c2 <= c }

\* line 172
RestoreLogConditionAny(c, r, n) == c < r
RestoreLogConditionLeq(c, r, n) == c <= r /\ n = c
RestoreLogCondition(c, r, n) == c < r /\ n = c

\* line 179
RestartCheckNever(c, m) == FALSE
RestartCheckOffByOne(c, m) == c < m - 1
RestartCheckLeq(c, m) == c <= m
RestartCheck(c, m) == c < m

\* line 159: the value min_rev has when a pass starts
PassStartMinRevKept(m) == m
PassStartMinRev(m) == 1

\* lines 188-189
MergeNextMin(m, n) == IF n < m THEN n ELSE m
MergeNext(m, n) == IF m < n THEN n ELSE m

\* line 192
ResumeInconsistentFlipped(c, r) == c > r
ResumeInconsistent(c, r) == c < r

\* lines 201-202
StartRevisionResolved(m, r) == m
StartRevision(m, r) == IF r # 0 THEN r ELSE m

\* line 215
FilterRevisionsWhenGiven(given, revs) == given
FilterRevisions(given, revs) == revs # {}

\* line 218
ExcludedInverted(revs, k) == k \in revs
Excluded(revs, k) == k \notin revs

\* line 216: the loop condition
LoopContinuesLt(k, m) == k < m
LoopContinues(k, m) == k <= m

\* line 236
ExitCodeSuccess(e) == EXIT_SUCCESS
ExitCode(e) == IF e THEN EXIT_FAILURE ELSE EXIT_SUCCESS

Max(S) == CHOOSE x \in S : \A y \in S : y <= x
Range(s) == { s[k] : k \in DOMAIN s }
IsExport(c) == c[1] = "exportRevision"
IsFinalize(c) == c[1] = "finalizeTags"
\* the revisions exportRevision was called with, in call order
Exported == [k \in DOMAIN SelectSeq(calls, IsExport) |-> SelectSeq(calls, IsExport)[k][2]]

\* ---------------------------------------------------------------- loaders
\* A QByteArray is a sequence of one-character strings; positions are counted
\* from 0 as in Qt, and -1 is "not found".
SeqsUpTo(S, n) == UNION { [1..k -> S] : k \in 0..n }

\* QByteArray::indexOf
IndexOf(s, pat) ==
    LET hits == { k \in 1..(Len(s) - Len(pat) + 1) : SubSeq(s, k, k + Len(pat) - 1) = pat }
    IN IF hits = {} THEN -1 ELSE (CHOOSE k \in hits : \A h \in hits : k <= h) - 1

\* QByteArray::truncate
Truncate(s, pos) == SubSeq(s, 1, pos)

\* QByteArray::mid
Mid(s, pos) == SubSeq(s, pos + 1, Len(s))

\* QByteArray::trimmed: whitespace removed from both ends
IsSpace(ch) == ch \in {" ", "\t", "\n", "\r"}

RECURSIVE DropLeadingSpace(_)
DropLeadingSpace(s) ==
    IF s # <<>> /\ IsSpace(Head(s)) THEN DropLeadingSpace(Tail(s)) ELSE s

RECURSIVE DropTrailingSpace(_)
DropTrailingSpace(s) ==
    IF s # <<>> /\ IsSpace(s[Len(s)])
    THEN DropTrailingSpace(SubSeq(s, 1, Len(s) - 1))
    ELSE s

Trimmed(s) == DropTrailingSpace(DropLeadingSpace(s))

\* QByteArray::toInt(&ok): <<ok, value>>; an optional sign, then decimal digits
\* read from the left. (Lines are far too short for the value to overflow.)
DecimalDigits == <<"0", "1", "2", "3", "4", "5", "6", "7", "8", "9">>
IsDigit(ch) == \E d \in DOMAIN DecimalDigits : DecimalDigits[d] = ch
DigitValue(ch) == (CHOOSE d \in DOMAIN DecimalDigits : DecimalDigits[d] = ch) - 1

RECURSIVE ReadDigits(_, _)
ReadDigits(s, acc) ==
    IF s = <<>> THEN <<TRUE, acc>>
    ELSE IF IsDigit(Head(s)) THEN ReadDigits(Tail(s), acc * 10 + DigitValue(Head(s)))
    ELSE <<FALSE, 0>>

ToInt(s) ==
    LET signed == s # <<>> /\ Head(s) \in {"-", "+"}
        digits == IF signed THEN Tail(s) ELSE s
        r == ReadDigits(digits, 0)
    IN IF digits = <<>> \/ ~r[1] THEN <<FALSE, 0>>
       ELSE IF signed /\ Head(s) = "-" THEN <<TRUE, 0 - r[2]>>
       ELSE r

\* QHash<QByteArray, QByteArray>::insert: the value of an existing key is replaced
EmptyMap == [k \in {} |-> <<>>]
HashInsert(m, k, v) == [x \in DOMAIN m \cup {k} |-> IF x = k THEN v ELSE m[x]]

\* lines 58-60: where the real name starts
RightSpaceNoEquals(line, space) == space
RightSpace(line, space) ==
    IF IndexOf(line, <<" ", "=", " ">>) = space THEN space + 2 ELSE space

\* lines 46-64: the body of the loop of loadIdentityMapFile
IdentityLine(result, raw) ==
    LET comment_pos == IndexOf(raw, <<"#">>)
        line == Trimmed(IF comment_pos # -1 THEN Truncate(raw, comment_pos) ELSE raw)
        space == IndexOf(line, <<" ">>)
        realname == Trimmed(Mid(line, RightSpace(line, space)))
    IN IF space = -1
       THEN result
       ELSE HashInsert(result, Truncate(line, space), realname)

\* The files LoaderSpec reads.
RevChars == {" ", "1", "-"}
RevFiles == SeqsUpTo(SeqsUpTo(RevChars, MaxLineLen), MaxLines)
IdChars == {" ", "#", "=", "a", "b"}
IdLines == SeqsUpTo(IdChars, MaxIdLineLen)
\* an identity-map file: one line, or one line after an entry for "a" or for "b"
IdFirstLines == { <<"a", " ", "b">>, <<"b", " ", "=", " ", "a">> }
IdFiles == {<<>>} \cup { <<l>> : l \in IdLines }
               \cup { <<f, l>> : f \in IdFirstLines, l \in IdLines }

\* no loader is running
LoaderOff ==
    /\ lpc = "off"
    /\ lwhich = "revisions-file"
    /\ lopen = "none"
    /\ llines = <<>>
    /\ lfile = <<>>
    /\ lmap = EmptyMap
    /\ lrevs = {}
    /\ ldiag = 0
    /\ lfilter = FALSE

\* ------------------------------------------------------------------- Init
Init ==
    /\ resume_from \in 0..MaxRev
    /\ max_rev \in 0..MaxRev
    /\ numRepos \in 0..MaxRepos
    /\ repositories = [n \in Names |-> 0]
    /\ cutoff = InitialCutoff(resume_from)
    /\ min_rev = PassStartMinRev(0)
    /\ idx = 1
    /\ pc = IF numRepos = 0 THEN "resolved" ELSE "scan"
    /\ revisions = {}
    /\ i = 0
    /\ errors = FALSE
    /\ pending = [n \in Names |-> 0]
    /\ exitStatus = -1
    /\ exitLine = 0
    /\ passStart = cutoff
    /\ passNext = <<>>
    /\ overshoot = FALSE
    /\ restarted = FALSE
    /\ setupCalls = {}
    /\ restoreLogCalls = {}
    /\ resolved_min_rev = 0
    /\ revisionsFileGiven = FALSE
    /\ youngestQueried = FALSE
    /\ skipped = {}
    /\ calls = <<>>
    /\ resumeErrorReported = FALSE
    /\ failedRev = 0
    /\ lastSetup = <<>>
    /\ LoaderOff

\* ---------------------------------------------------------------- actions
\* lines 161-163 with the null test placed after the call of setupIncremental
MakeRepositoryFailsAfterSetup ==
    /\ pc = "scan"
    /\ pc' = "exit"
    /\ exitStatus' = EXIT_FAILURE
    /\ exitLine' = 163
    /\ setupCalls' = setupCalls \cup {idx}
    /\ UNCHANGED <<resume_from, max_rev, numRepos, repositories, pending,
                   resolved_min_rev, calls, resumeErrorReported>>
    /\ UNCHANGED <<cutoff, min_rev, idx, passStart, passNext, overshoot, restarted,
                   restoreLogCalls, lastSetup>>
    /\ UNCHANGED exportVars
    /\ UNCHANGED loaderVars

\* lines 161-163: makeRepository returns null
MakeRepositoryFails ==
    /\ pc = "scan"
    /\ pc' = "exit"
    /\ exitStatus' = EXIT_FAILURE
    /\ exitLine' = 163
    /\ UNCHANGED <<resume_from, max_rev, numRepos, repositories, pending,
                   resolved_min_rev, calls, resumeErrorReported>>
    /\ UNCHANGED resolverVars
    /\ UNCHANGED exportVars
    /\ UNCHANGED loaderVars

\* lines 160-189: one iteration of the foreach for the rule at position idx
ScanRepository ==
    /\ pc = "scan"
    /\ repositories' = Insert(repositories, idx)
    /\ \E out \in SetupIncrementalOutcomes(cutoff) :
         LET repo_next == out[1]
             c == out[2]
         IN /\ cutoff' = c
            /\ setupCalls' = setupCalls \cup {idx}
            /\ overshoot' = (overshoot \/ repo_next > c)
            /\ restoreLogCalls' =
                 IF RestoreLogCondition(c, resume_from, repo_next)
                 THEN restoreLogCalls \cup {idx}
                 ELSE restoreLogCalls
            /\ lastSetup' = <<idx, repo_next,
                               RestoreLogCondition(c, resume_from, repo_next)>>
            /\ IF RestartCheck(c, min_rev)
               THEN \* goto retry
                    /\ min_rev' = PassStartMinRev(min_rev)
                    /\ idx' = 1
                    /\ pc' = "scan"
                    /\ passStart' = c
                    /\ passNext' = <<>>
                    /\ restarted' = TRUE
               ELSE /\ min_rev' = MergeNext(min_rev, repo_next)
                    /\ idx' = idx + 1
                    /\ pc' = IF idx + 1 > numRepos THEN "resolved" ELSE "scan"
                    /\ passNext' = Append(passNext, repo_next)
                    /\ UNCHANGED <<passStart, restarted>>
    /\ UNCHANGED <<resume_from, max_rev, numRepos, pending, exitStatus, exitLine,
                   resolved_min_rev, calls, resumeErrorReported>>
    /\ UNCHANGED exportVars
    /\ UNCHANGED loaderVars

\* lines 192-202 with the "return EXIT_FAILURE" of line 195 left out: the error
\* is reported and the run goes on.
CheckResumeFallsThrough ==
    /\ pc = "resolved"
    /\ resolved_min_rev' = min_rev
    /\ resumeErrorReported' = ResumeInconsistent(cutoff, resume_from)
    /\ pc' = "range"
    /\ min_rev' = StartRevision(min_rev, resume_from)
    /\ UNCHANGED <<resume_from, max_rev, numRepos, repositories, pending, exitStatus,
                   exitLine, calls>>
    /\ UNCHANGED <<cutoff, idx, passStart, passNext, overshoot, restarted,
                   setupCalls, restoreLogCalls>>
    /\ lastSetup' = <<>>
    /\ UNCHANGED exportVars
    /\ UNCHANGED loaderVars

\* lines 192-202: the resume check and the start of the interval
CheckResume ==
    /\ pc = "resolved"
    /\ resolved_min_rev' = min_rev
    /\ IF ResumeInconsistent(cutoff, resume_from)
       THEN /\ resumeErrorReported' = TRUE
            /\ pc' = "exit"
            /\ exitStatus' = EXIT_FAILURE
            /\ exitLine' = 195
            /\ UNCHANGED min_rev
       ELSE /\ pc' = "range"
            /\ min_rev' = StartRevision(min_rev, resume_from)
            /\ UNCHANGED <<exitStatus, exitLine, resumeErrorReported>>
    /\ UNCHANGED <<resume_from, max_rev, numRepos, repositories, pending, calls>>
    /\ UNCHANGED <<cutoff, idx, passStart, passNext, overshoot, restarted,
                   setupCalls, restoreLogCalls>>
    /\ lastSetup' = <<>>
    /\ UNCHANGED exportVars
    /\ UNCHANGED loaderVars

\* lines 204-216: the upper bound, the revision filter, the loop's first value
SetupRange ==
    /\ pc = "range"
    /\ IF max_rev < 1
       THEN /\ \E youngest \in 0..MaxRev : max_rev' = youngest
            /\ youngestQueried' = TRUE
       ELSE UNCHANGED <<max_rev, youngestQueried>>
    /\ \E given \in BOOLEAN :
         /\ revisionsFileGiven' = given
         /\ revisions' \in (IF given THEN SUBSET Revs ELSE {{}})
    /\ i' = min_rev
    /\ pc' = "export"
    /\ UNCHANGED <<resume_from, numRepos, repositories, pending, exitStatus,
                   exitLine, resolved_min_rev, calls, errors, skipped, failedRev,
                   resumeErrorReported>>
    /\ UNCHANGED resolverVars
    /\ UNCHANGED loaderVars

\* lines 217-220: the filter excludes revision i
SkipRevision ==
    /\ pc = "export"
    /\ LoopContinues(i, max_rev)
    /\ FilterRevisions(revisionsFileGiven, revisions)
    /\ Excluded(revisions, i)
    /\ skipped' = skipped \cup {i}
    /\ i' = i + 1
    /\ UNCHANGED <<pc, resume_from, max_rev, numRepos, repositories, pending,
                   exitStatus, exitLine, resolved_min_rev, calls, revisions, errors,
                   revisionsFileGiven, youngestQueried, failedRev,
                   resumeErrorReported>>
    /\ UNCHANGED resolverVars
    /\ UNCHANGED loaderVars

\* lines 225-228 with the "break" of line 227 left out: the loop goes on to the
\* next revision after a failed export.
ExportRevisionNoBreak ==
    /\ pc = "export"
    /\ LoopContinues(i, max_rev)
    /\ FilterRevisions(revisionsFileGiven, revisions) => ~Excluded(revisions, i)
    /\ calls' = Append(calls, <<"exportRevision", i>>)
    /\ i' = i + 1
    /\ \E ok \in BOOLEAN :
         IF ok
         THEN UNCHANGED <<errors, failedRev>>
         ELSE /\ errors' = TRUE
              /\ failedRev' = IF failedRev = 0 THEN i ELSE failedRev
    /\ UNCHANGED <<pc, pending, resume_from, max_rev, numRepos, repositories,
                   exitStatus, exitLine, resolved_min_rev, revisions,
                   revisionsFileGiven, youngestQueried, skipped, resumeErrorReported>>
    /\ UNCHANGED resolverVars
    /\ UNCHANGED loaderVars

\* lines 225-228: svn.exportRevision(i)
ExportRevision ==
    /\ pc = "export"
    /\ LoopContinues(i, max_rev)
    /\ FilterRevisions(revisionsFileGiven, revisions) => ~Excluded(revisions, i)
    /\ calls' = Append(calls, <<"exportRevision", i>>)
    /\ \E ok \in BOOLEAN :
         IF ok
         THEN /\ i' = i + 1
              /\ UNCHANGED <<pc, errors, failedRev, pending>>
         ELSE \* errors = true; break;
              /\ errors' = TRUE
              /\ failedRev' = i
              /\ pc' = "finalize"
              /\ pending' = repositories
              /\ UNCHANGED i
    /\ UNCHANGED <<resume_from, max_rev, numRepos, repositories, exitStatus,
                   exitLine, resolved_min_rev, revisions, revisionsFileGiven,
                   youngestQueried, skipped, resumeErrorReported>>
    /\ UNCHANGED resolverVars
    /\ UNCHANGED loaderVars

\* line 216: the loop condition fails
ExportLoopEnds ==
    /\ pc = "export"
    /\ ~LoopContinues(i, max_rev)
    /\ pc' = "finalize"
    /\ pending' = repositories
    /\ UNCHANGED <<resume_from, max_rev, numRepos, repositories, exitStatus,
                   exitLine, resolved_min_rev, calls, resumeErrorReported>>
    /\ UNCHANGED resolverVars
    /\ UNCHANGED exportVars
    /\ UNCHANGED loaderVars

\* lines 231-234: one iteration of the foreach over the hash's entries
FinalizeTags ==
    /\ pc = "finalize"
    /\ \E n \in Names :
         /\ pending[n] > 0
         /\ pending' = [pending EXCEPT ![n] = @ - 1]
         /\ calls' = Append(calls, <<"finalizeTags", n>>)
    /\ UNCHANGED <<pc, resume_from, max_rev, numRepos, repositories, exitStatus,
                   exitLine, resolved_min_rev, resumeErrorReported>>
    /\ UNCHANGED resolverVars
    /\ UNCHANGED exportVars
    /\ UNCHANGED loaderVars

\* lines 235-236
Return ==
    /\ pc = "finalize"
    /\ \A n \in Names : pending[n] = 0
    /\ pc' = "exit"
    /\ exitStatus' = ExitCode(errors)
    /\ exitLine' = 236
    /\ UNCHANGED <<resume_from, max_rev, numRepos, repositories, pending,
                   resolved_min_rev, calls, resumeErrorReported>>
    /\ UNCHANGED resolverVars
    /\ UNCHANGED exportVars
    /\ UNCHANGED loaderVars

Next ==
    \/ MakeRepositoryFails
    \/ ScanRepository
    \/ CheckResume
    \/ SetupRange
    \/ SkipRevision
    \/ ExportRevision
    \/ ExportLoopEnds
    \/ FinalizeTags
    \/ Return

Spec == Init /\ [][Next]_vars

\* main() is one sequential control path: a step that can be taken is taken.
FairSpec == Spec /\ WF_vars(Next)

\* ------------------------------------------------------- the loaders' steps
\* main() is idle while a loader runs.
mainVars == <<pc, resume_from, max_rev, numRepos, repositories, revisions, i, errors,
              pending, exitStatus, exitLine, resolved_min_rev, revisionsFileGiven,
              youngestQueried, skipped, calls, resumeErrorReported, failedRev>>

\* A call of loadIdentityMapFile or of loadRevisionsFile: the file name is
\* empty, or names a file that cannot be opened, or names a file with lines.
LoaderInit ==
    /\ resume_from = 0
    /\ max_rev = 0
    /\ numRepos = 0
    /\ repositories = [n \in Names |-> 0]
    /\ cutoff = InitialCutoff(resume_from)
    /\ min_rev = 1
    /\ idx = 1
    /\ pc = "range"
    /\ revisions = {}
    /\ i = 0
    /\ errors = FALSE
    /\ pending = [n \in Names |-> 0]
    /\ exitStatus = -1
    /\ exitLine = 0
    /\ passStart = cutoff
    /\ passNext = <<>>
    /\ overshoot = FALSE
    /\ restarted = FALSE
    /\ setupCalls = {}
    /\ restoreLogCalls = {}
    /\ resolved_min_rev = 1
    /\ revisionsFileGiven = FALSE
    /\ youngestQueried = FALSE
    /\ skipped = {}
    /\ calls = <<>>
    /\ resumeErrorReported = FALSE
    /\ failedRev = 0
    /\ lastSetup = <<>>
    /\ lpc = "open"
    /\ lwhich \in {"identity-map", "revisions-file"}
    /\ lopen \in {"none", "unreadable", "readable"}
    /\ llines \in (IF lopen # "readable" THEN {<<>>}
                   ELSE IF lwhich = "identity-map" THEN IdFiles ELSE RevFiles)
    /\ lfile = llines
    /\ lmap = EmptyMap
    /\ lrevs = {}
    /\ ldiag = 0
    /\ lfilter = FALSE

\* lines 35-36, 74-75: the file name is empty
NoFileName ==
    /\ lpc = "open"
    /\ lopen = "none"
    /\ lpc' = "done"
    /\ UNCHANGED <<lwhich, lopen, llines, lfile, lmap, lrevs, ldiag, lfilter>>
    /\ UNCHANGED mainVars
    /\ UNCHANGED resolverVars

\* lines 38-43, 77-81: the file cannot be opened
OpenFails ==
    /\ lpc = "open"
    /\ lopen = "unreadable"
    /\ lpc' = "done"
    /\ UNCHANGED <<lwhich, lopen, llines, lfile, lmap, lrevs, ldiag, lfilter>>
    /\ UNCHANGED mainVars
    /\ UNCHANGED resolverVars

\* lines 38-39, 77-78: the file is opened
OpenFile ==
    /\ lpc = "open"
    /\ lopen = "readable"
    /\ lpc' = "read"
    /\ UNCHANGED <<lwhich, lopen, llines, lfile, lmap, lrevs, ldiag, lfilter>>
    /\ UNCHANGED mainVars
    /\ UNCHANGED resolverVars

\* lines 45-65: one iteration of the loop of loadIdentityMapFile
ReadIdentityLine ==
    /\ lpc = "read"
    /\ lwhich = "identity-map"
    /\ lfile # <<>>
    /\ lmap' = IdentityLine(lmap, Head(lfile))
    /\ lfile' = Tail(lfile)
    /\ UNCHANGED <<lpc, lwhich, lopen, llines, lrevs, ldiag, lfilter>>
    /\ UNCHANGED mainVars
    /\ UNCHANGED resolverVars

\* lines 83-93 with the loop left at the first line that does not convert
ReadRevisionLineAbort ==
    /\ lpc = "read"
    /\ lwhich = "revisions-file"
    /\ lfile # <<>>
    /\ LET r == ToInt(Trimmed(Head(lfile)))
       IN IF ~r[1]
          THEN /\ ldiag' = ldiag + 1
               /\ lfile' = <<>>
               /\ UNCHANGED lrevs
          ELSE /\ lrevs' = lrevs \cup {r[2]}
               /\ lfile' = Tail(lfile)
               /\ UNCHANGED ldiag
    /\ UNCHANGED <<lpc, lwhich, lopen, llines, lmap, lfilter>>
    /\ UNCHANGED mainVars
    /\ UNCHANGED resolverVars

\* lines 83-93: one iteration of the loop of loadRevisionsFile
ReadRevisionLine ==
    /\ lpc = "read"
    /\ lwhich = "revisions-file"
    /\ lfile # <<>>
    /\ LET r == ToInt(Trimmed(Head(lfile)))
       IN IF ~r[1]
          THEN /\ ldiag' = ldiag + 1
               /\ UNCHANGED lrevs
          ELSE /\ lrevs' = lrevs \cup {r[2]}
               /\ UNCHANGED ldiag
    /\ lfile' = Tail(lfile)
    /\ UNCHANGED <<lpc, lwhich, lopen, llines, lmap, lfilter>>
    /\ UNCHANGED mainVars
    /\ UNCHANGED resolverVars

\* lines 66-68, 94-95: atEnd, close, return
CloseFile ==
    /\ lpc = "read"
    /\ lfile = <<>>
    /\ lpc' = "done"
    /\ UNCHANGED <<lwhich, lopen, llines, lfile, lmap, lrevs, ldiag, lfilter>>
    /\ UNCHANGED mainVars
    /\ UNCHANGED resolverVars

\* lines 208, 214-215: main takes the loader's result
UseResult ==
    /\ lpc = "done"
    /\ lpc' = "used"
    /\ lfilter' = IF lwhich = "revisions-file"
                  THEN FilterRevisions(lopen # "none", lrevs)
                  ELSE lfilter
    /\ UNCHANGED <<lwhich, lopen, llines, lfile, lmap, lrevs, ldiag>>
    /\ UNCHANGED mainVars
    /\ UNCHANGED resolverVars

LoaderNext ==
    \/ NoFileName
    \/ OpenFails
    \/ OpenFile
    \/ ReadIdentityLine
    \/ ReadRevisionLine
    \/ CloseFile
    \/ UseResult

LoaderSpec == LoaderInit /\ [][LoaderNext]_vars

\* The resolution loop alone (lines 158-190): the scan passes and their restarts.
ResolverNext ==
    \/ MakeRepositoryFails
    \/ ScanRepository

ResolverSpec == Init /\ [][ResolverNext]_vars /\ WF_vars(ResolverNext)

\* ----------------------------------------------------------------- claims
\* A step of ScanRepository that takes "goto retry".
IsRetryStep == pc = "scan" /\ pc' = "scan" /\ idx' = 1
NoExportCall == \A k \in DOMAIN calls : ~IsExport(calls[k])
FinalizeCount(n) == Cardinality({ k \in DOMAIN calls : calls[k] = <<"finalizeTags", n>> })
\* The revisions of the interval [start, maxRev] the loop exports.
Selected == { r \in min_rev..max_rev : revisions # {} => r \in revisions }

C3_ResumeErrorBeforeExport ==
    (pc \notin {"scan", "resolved"} /\ resolved_min_rev # 0 /\ cutoff < resume_from)
        => (pc = "exit" /\ exitStatus = EXIT_FAILURE /\ NoExportCall)

C3_Witness == pc = "exit" /\ resolved_min_rev # 0 /\ cutoff < resume_from

\* C4 (as stated): a run that ended with the resume-inconsistency error has
\* invoked neither restoreLog nor exportRevision nor finalizeTags.
C4_ResumeErrorNoMutation ==
    (pc = "exit" /\ resumeErrorReported) => (restoreLogCalls = {} /\ calls = <<>>)

\* C4 (amended): a run that ended with the resume-inconsistency error has
\* invoked neither exportRevision nor finalizeTags on any repository
\* (restoreLog may have been invoked during resolution).
C4_ResumeErrorNoExportNoFinalize ==
    (pc = "exit" /\ resumeErrorReported) => calls = <<>>

C4_Witness == pc = "exit" /\ resumeErrorReported /\ restoreLogCalls # {}

\* C5: when resolution completes, every repository was scanned in the final
\* pass and min_rev is the maximum of the nextRevision values that pass got.
C5_MinRevIsMaxOfFinalPass ==
    (pc = "resolved" /\ numRepos > 0)
        => (Len(passNext) = numRepos /\ min_rev = Max(Range(passNext)))

C5_Witness ==
    /\ pc = "resolved"
    /\ restarted
    /\ numRepos = 2
    /\ passNext[1] > passNext[2]

\* C6: when the loop has ended and no export failed, the exportRevision calls
\* are exactly the revisions of [start, maxRev] (those in the filter when the
\* loaded filter is non-empty), strictly ascending, each once; the revisions
\* the filter excluded were skipped without a call.
C6_ExportsExactlyTheInterval ==
    (pc \in {"finalize", "exit"} /\ exitLine \in {0, 236} /\ failedRev = 0)
        => /\ Range(Exported) = Selected
           /\ \A j, k \in DOMAIN Exported : j < k => Exported[j] < Exported[k]
           /\ skipped = (min_rev..max_rev) \ Selected

C6_Witness ==
    /\ pc = "exit"
    /\ failedRev = 0
    /\ Len(Exported) >= 2
    /\ skipped # {}

\* C7: once an exportRevision call has failed, the loop has been left, the
\* failed call is the last exportRevision call and the only one for that
\* revision, and the process exits with a failure status.
C7_FailFast ==
    failedRev # 0
        => /\ pc \in {"finalize", "exit"}
           /\ Exported # <<>>
           /\ Exported[Len(Exported)] = failedRev
           /\ Cardinality({ k \in DOMAIN Exported : Exported[k] = failedRev }) = 1
           /\ pc = "exit" => exitStatus = EXIT_FAILURE

C7_Witness == pc = "exit" /\ failedRev # 0 /\ failedRev < max_rev

\* C8: a run that went through the export loop has, when it exits, called
\* finalizeTags exactly once for each configured repository (and for nothing
\* else), and no exportRevision call follows a finalizeTags call.
C8_FinalizeOncePerRepository ==
    /\ (pc = "exit" /\ exitLine = 236)
          => \A n \in Names : FinalizeCount(n) = (IF n <= numRepos THEN 1 ELSE 0)
    /\ \A j, k \in DOMAIN calls :
          (IsFinalize(calls[j]) /\ IsExport(calls[k])) => k < j

C8_Witness ==
    /\ pc = "exit"
    /\ exitLine = 236
    /\ restarted
    /\ numRepos = 2
    /\ failedRev # 0

\* C9 (as stated): whatever set the loader produced from a configured revisions
\* file, exportRevision is called for no revision outside that set.
C9_FilterSkipsNonMembers ==
    revisionsFileGiven => Range(Exported) \subseteq revisions

\* C9 (amended): when the set loaded from the configured revisions file is not
\* empty, every candidate revision outside it is skipped: exportRevision is
\* called for members only, and each non-member the loop has passed was skipped.
C9_NonEmptyFilterSkipsNonMembers ==
    (revisionsFileGiven /\ revisions # {})
        => /\ Range(Exported) \subseteq revisions
           /\ skipped \cap Range(Exported) = {}
           /\ \A r \in min_rev..(i - 1) : r \notin revisions => r \in skipped

C9_Witness ==
    /\ pc = "exit"
    /\ revisionsFileGiven
    /\ revisions # {}
    /\ skipped # {}
    /\ Exported # <<>>

\* C10 (as stated): the exit status is non-zero exactly when resolution
\* completed with the cutoff below the resume point or an export failed.
C10_ExitStatus ==
    pc = "exit"
        => (exitStatus # EXIT_SUCCESS
               <=> \/ (resolved_min_rev # 0 /\ cutoff < resume_from)
                   \/ failedRev # 0)

\* C10 (amended): the exit status is non-zero exactly when a repository could
\* not be instantiated (resolution never completed), resolution completed with
\* the cutoff below the resume point, or an export failed.
C10_ExitStatusWithConfigError ==
    pc = "exit"
        => (exitStatus # EXIT_SUCCESS
               <=> \/ resolved_min_rev = 0
                   \/ (resolved_min_rev # 0 /\ cutoff < resume_from)
                   \/ failedRev # 0)

C10_Witness == pc = "exit" /\ exitStatus = EXIT_SUCCESS /\ Exported # <<>>

\* ---------------------------------------------------------------------- C11
\* C11 (as stated): when a repository cannot be instantiated, whatever its
\* position, the run has failed without any setupIncremental, restoreLog or
\* exportRevision call on any repository.
C11_ConfigErrorBeforeAnyCall ==
    (pc = "exit" /\ exitLine = 163) =>
        /\ exitStatus = EXIT_FAILURE
        /\ setupCalls = {}
        /\ restoreLogCalls = {}
        /\ NoExportCall

\* C11 (amended): when a repository cannot be instantiated the run has failed
\* without completing resolution and without any exportRevision or
\* finalizeTags call; setupIncremental, and restoreLog after it, have been
\* called only on repositories that were instantiated: in a run that never
\* restarted a pass, exactly on those before the failing position.
C11_ConfigErrorBeforeExport ==
    (pc = "exit" /\ exitLine = 163) =>
        /\ exitStatus = EXIT_FAILURE
        /\ calls = <<>>
        /\ resolved_min_rev = 0
        /\ restoreLogCalls \subseteq setupCalls
        /\ (~restarted => setupCalls = 1..(idx - 1))

\* the second repository cannot be instantiated after the first was scanned
C11_Witness ==
    pc = "exit" /\ exitLine = 163 /\ idx = 2 /\ ~restarted /\ setupCalls = {1}

\* ---------------------------------------------------------------------- C12
\* What a line of the revisions file stands for, read off the text of the line:
\* the characters from its first to its last non-blank one, which are a numeral
\* when they are decimal digits after an optional sign.
CoreOf(l) ==
    LET ns == { k \in 1..Len(l) : ~IsSpace(l[k]) }
    IN IF ns = {} THEN <<>>
       ELSE SubSeq(l, CHOOSE k \in ns : \A h \in ns : k <= h,
                      CHOOSE k \in ns : \A h \in ns : h <= k)

Unsigned(t) == IF t # <<>> /\ t[1] \in {"-", "+"} THEN Tail(t) ELSE t

IsNumeral(t) ==
    /\ Unsigned(t) # <<>>
    /\ \A k \in 1..Len(Unsigned(t)) : IsDigit(Unsigned(t)[k])

RECURSIVE PlaceValue(_, _)
PlaceValue(d, k) ==
    IF k = 0 THEN 0
    ELSE DigitValue(d[k]) + 10 * PlaceValue(d, k - 1)

NumeralValue(t) ==
    IF t[1] = "-" THEN 0 - PlaceValue(Unsigned(t), Len(Unsigned(t)))
    ELSE PlaceValue(Unsigned(t), Len(Unsigned(t)))

ParsingLines == { k \in 1..Len(llines) : IsNumeral(CoreOf(llines[k])) }

\* C12: when loadRevisionsFile has read a file to its end, the set it returns
\* holds exactly the integers of the lines that are a numeral once trimmed,
\* every other line has produced one diagnostic and ended nothing, and the
\* set depends on which lines occur, not on their order or repetition.
C12_RevisionsAreTheParsingLines ==
    (lpc \in {"done", "used"} /\ lwhich = "revisions-file" /\ lopen = "readable") =>
        /\ lfile = <<>>
        /\ lrevs = { NumeralValue(CoreOf(llines[k])) : k \in ParsingLines }
        /\ lrevs = { NumeralValue(CoreOf(l)) : l \in { x \in Range(llines) : IsNumeral(CoreOf(x)) } }
        /\ ldiag = Len(llines) - Cardinality(ParsingLines)

\* a file whose first line does not parse and whose second line is " 1"
C12_Witness ==
    /\ lpc = "done"
    /\ lwhich = "revisions-file"
    /\ llines = << <<"-">>, <<" ", "1">> >>
    /\ lrevs = {1}
    /\ ldiag = 1

\* ---------------------------------------------------------------------- C13
\* what main receives from a loader whose file name is empty: the map, the set,
\* the diagnostics of unconverted lines, and whether the export loop filters
ResultWhenNotGiven == <<EmptyMap, {}, 0, FALSE>>

\* C13: a file that cannot be opened ends nothing: the loader returns, main
\* goes on, and what main receives (an empty map, an empty set, filtering
\* off) is what it receives when no file name was given.
C13_UnreadableIsAsNotGiven ==
    /\ (lpc \in {"done", "used"} /\ lopen \in {"none", "unreadable"}) =>
           /\ llines = <<>>
           /\ exitStatus = -1
           /\ <<lmap, lrevs, ldiag, lfilter>> = ResultWhenNotGiven
    /\ (lpc = "open" /\ lopen = "unreadable") => ENABLED OpenFails
    /\ (lpc = "done" /\ lopen = "unreadable") => ENABLED UseResult

\* main has taken the result of a loader that could not open its file
C13_Witness ==
    lpc = "used" /\ lopen = "unreadable" /\ lwhich = "revisions-file" /\ ~lfilter

\* ---------------------------------------------------------------------- C14
\* What a line of the identity map stands for, read off the text of the line.
\* the line up to its first '#'
Uncommented(l) ==
    LET hs == { k \in 1..Len(l) : l[k] = "#" }
    IN IF hs = {} THEN l ELSE SubSeq(l, 1, (CHOOSE k \in hs : \A h \in hs : k <= h) - 1)

EntryText(l) == CoreOf(Uncommented(l))
FirstBlank(t) == CHOOSE k \in 1..Len(t) : t[k] = " " /\ \A h \in 1..(k - 1) : t[h] # " "
IsEntry(l) == \E k \in 1..Len(EntryText(l)) : EntryText(l)[k] = " "
LoginOf(l) == SubSeq(EntryText(l), 1, FirstBlank(EntryText(l)) - 1)
\* the text after the first blank, without its leading "= " if it has one
RemainderOf(l) ==
    LET t == EntryText(l)
        rest == SubSeq(t, FirstBlank(t) + 1, Len(t))
    IN IF Len(rest) >= 2 /\ rest[1] = "=" /\ rest[2] = " "
       THEN SubSeq(rest, 3, Len(rest))
       ELSE rest
NameOf(l) == CoreOf(RemainderOf(l))

\* the entries of the lines read, the last line of a login giving its name
ExpectedIdentityMap ==
    LET entries == { k \in 1..Len(llines) : IsEntry(llines[k]) }
        logins == { LoginOf(llines[k]) : k \in entries }
        last(g) == CHOOSE k \in entries :
                       /\ LoginOf(llines[k]) = g
                       /\ \A h \in entries : LoginOf(llines[h]) = g => h <= k
    IN [g \in logins |-> NameOf(llines[last(g)])]

\* C14: when loadIdentityMapFile has read a file to its end, the map it returns
\* has one entry for each login of a line that, cut at its first '#' and
\* trimmed, contains a blank: the login is the text before the first blank and
\* its name the trimmed text after it, less a leading "= " when the separator
\* was " = "; the last line of a login gives its name. "a b" and "a = b" give
\* the same entry.
C14_IdentityMapIsTheEntries ==
    /\ (lpc \in {"done", "used"} /\ lwhich = "identity-map" /\ lopen = "readable") =>
           /\ lfile = <<>>
           /\ lmap = ExpectedIdentityMap
    /\ IdentityLine(EmptyMap, <<"a", " ", "b">>) = IdentityLine(EmptyMap, <<"a", " ", "=", " ", "b">>)
    /\ IdentityLine(EmptyMap, <<"a", " ", "b">>) = [g \in {<<"a">>} |-> <<"b">>]

\* an entry written with " = " and replaced by a later line for the same login
C14_Witness ==
    /\ lpc = "done"
    /\ lwhich = "identity-map"
    /\ llines = << <<"b", " ", "=", " ", "a">>, <<"b", " ", "b">> >>
    /\ lmap = [g \in {<<"b">>} |-> <<"b">>]

\* ---------------------------------------------------------------------- C15
\* a step of the resolution loop in which setupIncremental was called
IsSetupStep == pc = "scan" /\ pc' # "exit"

\* C15: when the cutoff that a setupIncremental call leaves is below the
\* min_rev accumulated so far in the pass, the pass is abandoned: the next
\* repository scanned is the first one, min_rev is 1 again (the nextRevision
\* just returned is not merged), and the new pass starts with the cutoff the
\* call left, which is not above the one before; and the min_rev with which
\* resolution completes comes from the nextRevisions of the completing pass only.
C15_RestartAbandonsThePass ==
    [][/\ (IsSetupStep /\ cutoff' < min_rev) =>
              /\ pc' = "scan"
              /\ idx' = 1
              /\ min_rev' = 1
              /\ passNext' = <<>>
              /\ passStart' = cutoff'
              /\ cutoff' <= cutoff
       /\ (IsSetupStep /\ pc' = "resolved") =>
              /\ ~(cutoff' < min_rev)
              /\ Len(passNext') = numRepos
              /\ min_rev' = Max({1} \cup Range(passNext'))
      ]_vars

\* the second repository's call left the cutoff below min_rev and returned a
\* nextRevision above 1, which the restarted pass does not carry
C15_Witness ==
    /\ pc = "scan"
    /\ restarted
    /\ idx = 1
    /\ min_rev = 1
    /\ lastSetup # <<>>
    /\ lastSetup[1] = 2
    /\ lastSetup[2] > 1

\* ---------------------------------------------------------------------- C16
\* C16: restoreLog follows a repository's setupIncremental call exactly when
\* that call left the cutoff below the requested resume point and returned the
\* cutoff as nextRevision, whether or not the pass is then restarted; with no
\* resume point requested it is never called.
C16_RestoreLogExactlyWhen ==
    [][/\ IsSetupStep =>
              /\ lastSetup'[1] = idx
              /\ lastSetup'[3] <=> (cutoff' < resume_from /\ lastSetup'[2] = cutoff')
              /\ restoreLogCalls' = IF lastSetup'[3]
                                    THEN restoreLogCalls \cup {idx}
                                    ELSE restoreLogCalls
       /\ ~IsSetupStep => restoreLogCalls' = restoreLogCalls
       /\ resume_from = 0 => restoreLogCalls' = {}
      ]_vars

\* restoreLog was called on the second repository in the step that abandoned
\* the pass
C16_Witness ==
    /\ pc = "scan"
    /\ idx = 1
    /\ passNext = <<>>
    /\ lastSetup # <<>>
    /\ lastSetup[1] = 2
    /\ lastSetup[3]
    /\ 2 \in restoreLogCalls

\* ---------------------------------------------------------------------- C17
\* C17: the loop starts at the requested resume point when there is one,
\* whether the resolved min_rev is below or above it, and at the resolved
\* min_rev otherwise; it ends at the requested maximum when one of at least 1
\* was given, and at youngestRevision() otherwise, which is queried in that
\* case only; no exportRevision call is for a revision outside these bounds.
C17_ReplayedInterval ==
    [][/\ (pc = "resolved" /\ pc' = "range") =>
              min_rev' = IF resume_from # 0 THEN resume_from ELSE min_rev
       /\ (pc = "range" /\ pc' = "export") =>
              /\ i' = min_rev
              /\ min_rev' = min_rev
              /\ max_rev >= 1 => (max_rev' = max_rev /\ ~youngestQueried')
              /\ max_rev < 1 => youngestQueried'
       /\ (pc # "range") => (youngestQueried' = youngestQueried /\ max_rev' = max_rev)
       /\ (pc \notin {"scan", "resolved"}) => min_rev' = min_rev
       /\ \A k \in DOMAIN Exported' :
              min_rev' <= Exported'[k] /\ Exported'[k] <= max_rev'
      ]_vars

\* an explicit maximum and a resume point above the resolved min_rev: the first
\* export is the resume point
C17_Witness ==
    /\ pc = "export"
    /\ resume_from # 0
    /\ resolved_min_rev < resume_from
    /\ ~youngestQueried
    /\ Exported # <<>>
    /\ Exported[1] = resume_from

\* ---------------------------------------------------------------------- C18
\* C18 (as stated): a run in which restoreLog was called ends with the
\* resume-inconsistency error, and without any exportRevision or finalizeTags
\* call.
C18_RestoreLogEndsInResumeError ==
    restoreLogCalls # {} =>
        /\ calls = <<>>
        /\ pc = "exit" => resumeErrorReported

\* C18 (amended): once restoreLog has been called the cutoff is below the
\* resume point, exportRevision and finalizeTags are never called, and the run
\* can only end in failure: with the resume-inconsistency error, or at a
\* repository that cannot be instantiated.
C18_RestoreLogExcludesExport ==
    restoreLogCalls # {} =>
        /\ cutoff < resume_from
        /\ calls = <<>>
        /\ pc \in {"scan", "resolved", "exit"}
        /\ pc = "exit" =>
               /\ exitStatus = EXIT_FAILURE
               /\ resumeErrorReported \/ exitLine = 163

\* restoreLog was called on the first repository and the second one could not
\* be instantiated
C18_Witness ==
    pc = "exit" /\ exitLine = 163 /\ restoreLogCalls = {1} /\ ~resumeErrorReported

\* ---------------------------------------------------------------------- C19
\* C19: with a resume point requested, the export loop and finalization are
\* reached only with the cutoff still equal to the resume point.
C19_ExportOnlyWithCutoffAtResume ==
    (resume_from # 0 /\ (pc \in {"range", "export", "finalize"} \/ exitLine = 236))
        => (cutoff = resume_from /\ restoreLogCalls = {})

\* the first export of a run with a resume point and repositories
C19_Witness ==
    /\ pc = "export"
    /\ resume_from # 0
    /\ numRepos > 0
    /\ Len(Exported) = 1
    /\ cutoff = resume_from

\* ---------------------------------------------------------------------- C20
\* C20: when resolution has completed and no setupIncremental call returned a
\* nextRevision above the cutoff it left, min_rev is at most the cutoff.
C20_MinRevAtMostCutoff ==
    (pc = "resolved" /\ ~overshoot) => min_rev <= cutoff

\* resolution completed after a restart with the last repository's
\* nextRevision equal to the cutoff
C20_Witness ==
    /\ pc = "resolved"
    /\ ~overshoot
    /\ restarted
    /\ numRepos = 2
    /\ passNext[2] = cutoff
    /\ min_rev = cutoff

====
